---- MODULE Spec2Model ----
(***************************************************************************)
(* A model of spend.py: the SpendingCalculator console ledger.             *)
(*                                                                         *)
(* The state is the fields of the SpendingCalculator object, the pickle    *)
(* file on disk, the wall clock, the position of the process in its menu   *)
(* loops, and what the last loop iteration printed.  Standard input is a   *)
(* stream of lines; a handler that reads several lines (and re-prompts on  *)
(* rejected ones) is one action, whose prompts draw their lines from small *)
(* sets of texts.  Amounts are whole currency units.                       *)
(***************************************************************************)
EXTENDS Integers, Sequences, FiniteSets, TLC

VARIABLES expenses, categories, balance, transaction_history, budget,
          budget_interval, category_budgets, data_file, pc, now, status,
          summary, last, allTx, savedTx

vars == <<expenses, categories, balance, transaction_history, budget,
          budget_interval, category_budgets, data_file, pc, now, status,
          summary, last, allTx, savedTx>>

(***************************************************************************)
(* Program constants.                                                      *)
(***************************************************************************)
history_length == 5

DefaultCategories ==
  <<"Food", "Housing", "Transportation", "Entertainment", "Utilities", "Other">>

budget_intervals == <<"Day", "Week", "Bi-Weekly", "Month", "Year">>

(***************************************************************************)
(* Bounds of the model.                                                    *)
(***************************************************************************)
MaxRetries == 1        \* rejected lines a prompt takes before an accepted one
MaxExpenses == 1       \* expenses recorded in the ledger specification
MaxTx == 6             \* transactions since the last clear (ledger)
MaxStatusExpenses == 2 \* expenses recorded in the status specification
MaxCatExpenses == 1    \* expenses recorded in the category specification
MaxCatTx == 2          \* transactions since the last clear (category)

(***************************************************************************)
(* Sequences and dicts.                                                    *)
(***************************************************************************)
Range(s) == {s[i] : i \in 1..Len(s)}

EmptyDict == [c \in {} |-> 0]

DictSet(d, k, v) == [c \in (DOMAIN d) \cup {k} |-> IF c = k THEN v ELSE d[c]]

\* The del that deletes nothing.
DictDel_keep(d, k) == d

DictDel(d, k) == [c \in (DOMAIN d) \ {k} |-> d[c]]

DictGet(d, k, default) == IF k \in DOMAIN d THEN d[k] ELSE default

\* The remove that takes the entry after x (the last one when x is last).
ListRemove_next(s, x) ==
  LET j == CHOOSE k \in 1..Len(s) : s[k] = x
      i == IF j < Len(s) THEN j + 1 ELSE j
  IN  [k \in 1..(Len(s)-1) |-> IF k < i THEN s[k] ELSE s[k+1]]

\* list.remove(x): removes the first occurrence of x
ListRemove(s, x) ==
  LET i == CHOOSE j \in 1..Len(s) : s[j] = x /\ \A k \in 1..(j-1) : s[k] # x
  IN  [k \in 1..(Len(s)-1) |-> IF k < i THEN s[k] ELSE s[k+1]]

(***************************************************************************)
(* datetime: a day ordinal (date.toordinal) and a time of day in seconds.  *)
(***************************************************************************)
IsLeap(y) == y % 4 = 0 /\ (y % 100 # 0 \/ y % 400 = 0)

DAYS_IN_MONTH == <<31, 28, 31, 30, 31, 30, 31, 31, 30, 31, 30, 31>>

DAYS_BEFORE_MONTH == <<0, 31, 59, 90, 120, 151, 181, 212, 243, 273, 304, 334>>

DaysInMonth(y, m) == IF m = 2 /\ IsLeap(y) THEN 29 ELSE DAYS_IN_MONTH[m]

DaysBeforeYear(y) ==
  (y-1) * 365 + ((y-1) \div 4) - ((y-1) \div 100) + ((y-1) \div 400)

DaysBeforeMonth(y, m) ==
  DAYS_BEFORE_MONTH[m] + (IF m > 2 /\ IsLeap(y) THEN 1 ELSE 0)

Ymd2Ord(y, m, d) == DaysBeforeYear(y) + DaysBeforeMonth(y, m) + d

Ord2Ymd(ord) ==
  LET n0   == ord - 1
      n400 == n0 \div 146097
      r400 == n0 % 146097
      n100 == r400 \div 36524
      r100 == r400 % 36524
      n4   == r100 \div 1461
      r4   == r100 % 1461
      n1   == r4 \div 365
      n    == r4 % 365
      year == n400 * 400 + 1 + n100 * 100 + n4 * 4 + n1
  IN  IF n1 = 4 \/ n100 = 4
      THEN [y |-> year - 1, m |-> 12, d |-> 31]
      ELSE LET leap  == n1 = 3 /\ (n4 # 24 \/ n100 = 3)
               mEst  == (n + 50) \div 32
               pEst  == DAYS_BEFORE_MONTH[mEst]
                          + (IF mEst > 2 /\ leap THEN 1 ELSE 0)
               month == IF pEst > n THEN mEst - 1 ELSE mEst
               prec  == IF pEst > n
                        THEN pEst - (DAYS_IN_MONTH[month]
                                       + (IF month = 2 /\ leap THEN 1 ELSE 0))
                        ELSE pEst
           IN  [y |-> year, m |-> month, d |-> n - prec + 1]

DateTime(y, m, d, tod) == [ord |-> Ymd2Ord(y, m, d), tod |-> tod]

DtLeq(a, b) == a.ord < b.ord \/ (a.ord = b.ord /\ a.tod <= b.tod)

DtLess(a, b) == a.ord < b.ord \/ (a.ord = b.ord /\ a.tod < b.tod)

Weekday(t) == (t.ord + 6) % 7

Midnight(t) == [ord |-> t.ord, tod |-> 0]

MinusDays(t, k) == [ord |-> t.ord - k, tod |-> t.tod]

\* datetime.replace(day=1)
ReplaceDay1(t) ==
  LET c == Ord2Ymd(t.ord) IN [ord |-> Ymd2Ord(c.y, c.m, 1), tod |-> t.tod]

\* datetime.replace(month=1, day=1)
ReplaceMonth1Day1(t) ==
  LET c == Ord2Ymd(t.ord) IN [ord |-> Ymd2Ord(c.y, 1, 1), tod |-> t.tod]

BiWeeklyAnchor == Ymd2Ord(1970, 1, 5)

\* The wall clock when the model starts: Wednesday 2024-02-14, 12:00:00.
StartTime == DateTime(2024, 2, 14, 12 * 3600)

NoDate == [ord |-> 0, tod |-> 0]

(***************************************************************************)
(* Lines of standard input and their conversions.                          *)
(***************************************************************************)
EOF == "<EOF>"

DigitText == <<"0", "1", "2", "3", "4", "5", "6", "7", "8", "9">>

\* str.isdigit, on the texts the model types
IsDigit(s) == s \in Range(DigitText)

\* int(s) of a digit text
IntOf(s) == (CHOOSE i \in 1..Len(DigitText) : DigitText[i] = s) - 1

\* float(s) succeeds
IsFloat(s) == IsDigit(s) \/ s = "-1"

FloatOf(s) == IF s = "-1" THEN 0 - 1 ELSE IntOf(s)

\* The fields strptime's "%Y-%m-%d" pattern matches in a text, if any.
DateFields(s) ==
  CASE s = "2023-12-31" -> <<2023, 12, 31>>
    [] s = "2024-01-01" -> <<2024, 1, 1>>
    [] s = "2024-01-31" -> <<2024, 1, 31>>
    [] s = "2024-02-01" -> <<2024, 2, 1>>
    [] s = "2024-02-04" -> <<2024, 2, 4>>
    [] s = "2024-02-05" -> <<2024, 2, 5>>
    [] s = "2024-02-11" -> <<2024, 2, 11>>
    [] s = "2024-02-12" -> <<2024, 2, 12>>
    [] s = "2024-02-13" -> <<2024, 2, 13>>
    [] s = "2024-02-14" -> <<2024, 2, 14>>
    [] s = "2024-02-20" -> <<2024, 2, 20>>
    [] s = "2024-02-30" -> <<2024, 2, 30>>
    [] s = "2024-13-01" -> <<2024, 13, 1>>
    [] OTHER -> <<>>

\* strptime(s, "%Y-%m-%d") does not raise ValueError
IsDate(s) ==
  LET f == DateFields(s)
  IN  /\ f # <<>>
      /\ f[2] \in 1..12
      /\ f[3] \in 1..DaysInMonth(f[1], f[2])

Strptime(s) == LET f == DateFields(s) IN DateTime(f[1], f[2], f[3], 0)

\* str.title, on the texts the model types
Title(s) ==
  CASE s = "day" -> "Day"
    [] s = "week" -> "Week"
    [] s = "bi-weekly" -> "Bi-Weekly"
    [] s = "month" -> "Month"
    [] s = "MONTH" -> "Month"
    [] s = "year" -> "Year"
    [] s = "fortnight" -> "Fortnight"
    [] OTHER -> s

\* str.lower, on the texts the model types
Lower(s) ==
  CASE s = "Day" -> "day"
    [] s = "Week" -> "week"
    [] s = "Bi-Weekly" -> "bi-weekly"
    [] s = "Month" -> "month"
    [] s = "Year" -> "year"
    [] s = "YES" -> "yes"
    [] s = "Yes" -> "yes"
    [] s = "No" -> "no"
    [] s = "X" -> "x"
    [] OTHER -> s

(***************************************************************************)
(* Prompts.  Each yields the set of ways its input loop can end, over the  *)
(* lines texts (and end-of-input) typed at it: end is "ok" with the value  *)
(* read, "eof" (EOFError) or "empty" (an empty line where the code         *)
(* returns); rej counts the lines it rejected and re-prompted after.       *)
(***************************************************************************)
PromptEnd(end, val, rej) == [end |-> end, val |-> val, rej |-> rej]

RECURSIVE ReadAmountFrom(_, _)
ReadAmountFrom(texts, rej) ==
  UNION { IF t = EOF
            THEN {PromptEnd("eof", 0, rej)}
          ELSE IF ~IsFloat(t)
            THEN (IF rej < MaxRetries THEN ReadAmountFrom(texts, rej + 1) ELSE {})
          ELSE IF FloatOf(t) <= 0
            THEN (IF rej < MaxRetries THEN ReadAmountFrom(texts, rej + 1) ELSE {})
          ELSE {PromptEnd("ok", FloatOf(t), rej)}
        : t \in texts \cup {EOF} }

ReadAmount(texts) == ReadAmountFrom(texts, 0)

RECURSIVE ReadCategoryFrom(_, _, _)
ReadCategoryFrom(texts, cats, rej) ==
  UNION { IF t = EOF
            THEN {PromptEnd("eof", "", rej)}
          ELSE IF t = ""
            THEN {PromptEnd("empty", "", rej)}
          ELSE IF IsDigit(t)
            THEN (IF 0 <= IntOf(t) - 1 /\ IntOf(t) - 1 < Len(cats)
                  THEN {PromptEnd("ok", cats[IntOf(t)], rej)}
                  ELSE IF rej < MaxRetries
                       THEN ReadCategoryFrom(texts, cats, rej + 1) ELSE {})
          ELSE IF t \in Range(cats)
            THEN {PromptEnd("ok", t, rej)}
          ELSE IF rej < MaxRetries
            THEN ReadCategoryFrom(texts, cats, rej + 1) ELSE {}
        : t \in texts \cup {EOF} }

ReadCategory(texts, cats) == ReadCategoryFrom(texts, cats, 0)

RECURSIVE ReadDateFrom(_, _, _)
ReadDateFrom(texts, clock, rej) ==
  UNION { IF t = EOF
            THEN {PromptEnd("eof", clock, rej)}
          ELSE IF t = ""
            THEN {PromptEnd("ok", clock, rej)}
          ELSE IF IsDate(t)
            THEN {PromptEnd("ok", Strptime(t), rej)}
          ELSE IF rej < MaxRetries
            THEN ReadDateFrom(texts, clock, rej + 1) ELSE {}
        : t \in texts \cup {EOF} }

ReadDate(texts, clock) == ReadDateFrom(texts, clock, 0)

(***************************************************************************)
(* Reports.                                                                *)
(***************************************************************************)
RECURSIVE SumAmounts(_)
SumAmounts(exps) ==
  IF exps = <<>> THEN 0 ELSE exps[1][3] + SumAmounts(Tail(exps))

\* sum(expense[2] for expense in self.expenses if start <= expense[0] <= t)
SpentBetween(exps, start, t) ==
  SumAmounts(SelectSeq(exps, LAMBDA e : DtLeq(start, e[1]) /\ DtLeq(e[1], t)))

\* The start of the window display_status sums over, per interval branch.
interval_start(interval, t) ==
  CASE Lower(interval) = "month" -> ReplaceDay1(t)
    [] Lower(interval) = "year" -> ReplaceMonth1Day1(t)
    [] Lower(interval) = "day" -> Midnight(t)
    [] Lower(interval) = "week" -> Midnight(MinusDays(t, Weekday(t)))
    [] Lower(interval) = "bi-weekly" ->
         LET weeks_since_start == (t.ord - BiWeeklyAnchor) \div 7
             days_since_monday ==
               IF weeks_since_start % 2 # 0 THEN Weekday(t) + 7 ELSE Weekday(t)
         IN  Midnight(MinusDays(t, days_since_monday))

\* The accumulation that assigns instead of adding.
RECURSIVE category_expenses_overwrite(_)
category_expenses_overwrite(exps) ==
  IF exps = <<>>
  THEN EmptyDict
  ELSE LET n == Len(exps)
           acc == category_expenses_overwrite(SubSeq(exps, 1, n - 1))
       IN  DictSet(acc, exps[n][2], exps[n][3])

\* category_expenses[category] = category_expenses.get(category, 0) + amount
RECURSIVE category_expenses(_)
category_expenses(exps) ==
  IF exps = <<>>
  THEN EmptyDict
  ELSE LET n == Len(exps)
           acc == category_expenses(SubSeq(exps, 1, n - 1))
       IN  DictSet(acc, exps[n][2], DictGet(acc, exps[n][2], 0) + exps[n][3])

Reverse(s) == [i \in 1..Len(s) |-> s[Len(s) + 1 - i]]

\* What display_status prints at time t: the balance, the overall budget
\* lines (when budget > 0), one line per entry of category_budgets, the
\* recent transactions newest first.
display_status(exps, bal, bud, interval, cbud, hist, t) ==
  [ at       |-> t,
    balance  |-> bal,
    overall  |-> IF bud > 0 /\ Lower(interval) \in
                      {"month", "year", "day", "week", "bi-weekly"}
                 THEN LET spent == SpentBetween(exps, interval_start(interval, t), t)
                      IN  <<[spent |-> spent, remaining |-> bud - spent]>>
                 ELSE <<>>,
    category |-> LET ce == category_expenses(exps)
                 IN  [c \in DOMAIN cbud |->
                        [budget    |-> cbud[c],
                         spent     |-> DictGet(ce, c, 0),
                         remaining |-> cbud[c] - DictGet(ce, c, 0)]],
    recent   |-> Reverse(hist) ]

\* sorted(self.expenses, key=lambda x: x[0]): a stable sort by date
RECURSIVE InsertByDate(_, _)
InsertByDate(sorted, e) ==
  IF sorted = <<>> THEN <<e>>
  ELSE LET n == Len(sorted)
       IN  IF DtLeq(sorted[n][1], e[1])
           THEN Append(sorted, e)
           ELSE Append(InsertByDate(SubSeq(sorted, 1, n - 1), e), sorted[n])

RECURSIVE SortedByDate(_)
SortedByDate(exps) ==
  IF exps = <<>> THEN <<>>
  ELSE InsertByDate(SortedByDate(SubSeq(exps, 1, Len(exps) - 1)), exps[Len(exps)])

\* The total that keeps the last amount instead of accumulating.
TotalSpending_last(sorted) ==
  IF sorted = <<>> THEN 0 ELSE sorted[Len(sorted)][3]

\* total_spending = 0; for ... in sorted_expenses: total_spending += amount
RECURSIVE TotalSpending(_)
TotalSpending(sorted) ==
  IF sorted = <<>> THEN 0
  ELSE TotalSpending(SubSeq(sorted, 1, Len(sorted) - 1)) + sorted[Len(sorted)][3]

\* What update_summary prints: nothing but a notice when there are no
\* expenses, else the expenses by date, the category totals and the total.
update_summary(exps) ==
  IF exps = <<>>
  THEN <<>>
  ELSE LET sorted_expenses == SortedByDate(exps)
       IN  << [ lines           |-> sorted_expenses,
                category_totals |-> category_expenses(sorted_expenses),
                total_spending  |-> TotalSpending(sorted_expenses) ] >>

(***************************************************************************)
(* The object's state, the pickle file, construction.                      *)
(***************************************************************************)
Record(e, c, b, h, bud, bi, cb) ==
  [ expenses |-> e, categories |-> c, balance |-> b, transaction_history |-> h,
    budget |-> bud, budget_interval |-> bi, category_budgets |-> cb ]

\* The persisted fields of the object as they are now.
Data ==
  Record(expenses, categories, balance, transaction_history, budget,
         budget_interval, category_budgets)

\* The fields __init__ assigns before it loads.
Fresh == Record(<<>>, DefaultCategories, 0, <<>>, 0, "Month", EmptyDict)

\* The file after save_data pickled d: <<>> is "no file".
save_data(d) == <<d>>

\* The fields after load_data on a fresh object.
load_data(file) == IF file = <<>> THEN Fresh ELSE file[1]

initialize_category_budgets(cats, cbud) ==
  [c \in (DOMAIN cbud) \cup Range(cats) |->
     IF c \in DOMAIN cbud THEN cbud[c] ELSE 0]

\* The fields when __init__ returns.
Constructed(file) ==
  LET d == load_data(file)
  IN  [d EXCEPT !.category_budgets =
                  initialize_category_budgets(d.categories, d.category_budgets)]

\* The trim with pop() for pop(0): the newest entry goes.
TrimHistory_pop_newest(h) ==
  IF Len(h) > history_length THEN SubSeq(h, 1, Len(h) - 1) ELSE h

\* if len(self.transaction_history) > self.history_length: pop(0)
TrimHistory(h) == IF Len(h) > history_length THEN Tail(h) ELSE h

\* The debit with the sign of a deposit.
debit_as_credit(bal, amount) == bal + amount

\* self.balance -= amount
debit(bal, amount) == bal - amount

\* self.balance += amount
credit(bal, amount) == bal + amount

\* The clear that forgets the balance.
Cleared_keeping_balance(d) ==
  [d EXCEPT !.expenses = <<>>, !.transaction_history = <<>>,
            !.budget = 0, !.category_budgets = EmptyDict]

\* The fields after clear_all_data's five assignments.
Cleared(d) ==
  [d EXCEPT !.expenses = <<>>, !.balance = 0, !.transaction_history = <<>>,
            !.budget = 0, !.category_budgets = EmptyDict]

(***************************************************************************)
(* last: the handler that ran last, how it ended and what it read.         *)
(***************************************************************************)
Op(op, end, rej, amount, category, date) ==
  [ op |-> op, end |-> end, rej |-> rej, amount |-> amount,
    category |-> category, date |-> date ]

Did(op, end, rej) == Op(op, end, rej, 0, "", NoDate)

Fields ==
  <<expenses, categories, balance, transaction_history, budget,
    budget_interval, category_budgets>>

\* The top of run's loop: display_status, then the main prompt.
MainLoop ==
  /\ pc' = "main"
  /\ status' = <<display_status(expenses', balance', budget', budget_interval',
                                category_budgets', transaction_history', now')>>

Init ==
  LET d == Constructed(<<>>)
  IN  /\ data_file = <<>>
      /\ expenses = d.expenses
      /\ categories = d.categories
      /\ balance = d.balance
      /\ transaction_history = d.transaction_history
      /\ budget = d.budget
      /\ budget_interval = d.budget_interval
      /\ category_budgets = d.category_budgets
      /\ pc = "main"
      /\ now = StartTime
      /\ status = <<display_status(d.expenses, d.balance, d.budget,
                                   d.budget_interval, d.category_budgets,
                                   d.transaction_history, StartTime)>>
      /\ summary = <<>>
      /\ last = Did("start", "done", 0)
      /\ allTx = <<>>
      /\ savedTx = <<>>

(***************************************************************************)
(* Main menu.                                                              *)
(***************************************************************************)
\* choice '1'
add_expense(amounts, names, dates, maxExpenses, maxTx) ==
  /\ pc = "main"
  /\ Len(expenses) < maxExpenses
  /\ Len(allTx) < maxTx
  /\ \E a \in ReadAmount(amounts) :
       IF a.end # "ok"
       THEN /\ last' = Did("add_expense", a.end, a.rej)
            /\ UNCHANGED <<Fields, allTx, savedTx>>
       ELSE \E c \in ReadCategory(names, categories) :
         IF c.end # "ok"
         THEN /\ last' = Did("add_expense", c.end, a.rej + c.rej)
              /\ UNCHANGED <<Fields, allTx, savedTx>>
         ELSE \E d \in ReadDate(dates, now) :
           IF d.end # "ok"
           THEN /\ last' = Did("add_expense", d.end, a.rej + c.rej + d.rej)
                /\ UNCHANGED <<Fields, allTx, savedTx>>
           ELSE /\ expenses' = Append(expenses, <<d.val, c.val, a.val>>)
                /\ balance' = debit(balance, a.val)
                /\ transaction_history' =
                     TrimHistory(Append(transaction_history,
                                        <<"Expense", d.val, c.val, a.val>>))
                /\ allTx' = Append(allTx, <<"Expense", d.val, c.val, a.val>>)
                /\ last' = Op("add_expense", "done", a.rej + c.rej + d.rej,
                              a.val, c.val, d.val)
                /\ UNCHANGED <<categories, budget, budget_interval,
                               category_budgets, savedTx>>
  /\ summary' = <<>>
  /\ UNCHANGED <<data_file, now>>
  /\ MainLoop

\* choice '2'
add_money(amounts, maxTx) ==
  /\ pc = "main"
  /\ Len(allTx) < maxTx
  /\ \E a \in ReadAmount(amounts) :
       IF a.end # "ok"
       THEN /\ last' = Did("add_money", a.end, a.rej)
            /\ UNCHANGED <<balance, transaction_history, allTx, savedTx>>
       ELSE /\ balance' = credit(balance, a.val)
            /\ transaction_history' =
                 TrimHistory(Append(transaction_history,
                                    <<"Deposit", now, "Deposit", a.val>>))
            /\ allTx' = Append(allTx, <<"Deposit", now, "Deposit", a.val>>)
            /\ last' = Op("add_money", "done", a.rej, a.val, "Deposit", now)
            /\ UNCHANGED savedTx
  /\ summary' = <<>>
  /\ UNCHANGED <<expenses, categories, budget, budget_interval,
                 category_budgets, data_file, now>>
  /\ MainLoop

\* choice '3'
view_summary ==
  /\ pc = "main"
  /\ summary' = update_summary(expenses)
  /\ last' = Did("update_summary", "done", 0)
  /\ UNCHANGED <<Fields, data_file, now, allTx, savedTx>>
  /\ MainLoop

\* The ways clear_all_data's confirmation loop can end: "yes", "no", or
\* "eof", where input() raises EOFError and nothing catches it.
RECURSIVE ReadConfirmationFrom(_, _)
ReadConfirmationFrom(texts, rej) ==
  UNION { IF t = EOF
            THEN {PromptEnd("eof", "", rej)}
          ELSE IF Lower(t) = "yes"
            THEN {PromptEnd("yes", t, rej)}
          ELSE IF Lower(t) = "no"
            THEN {PromptEnd("no", t, rej)}
          ELSE IF rej < MaxRetries
            THEN ReadConfirmationFrom(texts, rej + 1) ELSE {}
        : t \in texts \cup {EOF} }

\* choice '6'
clear_all_data(answers) ==
  /\ pc = "main"
  /\ summary' = <<>>
  /\ UNCHANGED now
  /\ \E r \in ReadConfirmationFrom(answers, 0) :
       /\ last' = Did("clear_all_data", r.end, r.rej)
       /\ CASE r.end = "yes" ->
                 /\ expenses' = Cleared(Data).expenses
                 /\ categories' = Cleared(Data).categories
                 /\ balance' = Cleared(Data).balance
                 /\ transaction_history' = Cleared(Data).transaction_history
                 /\ budget' = Cleared(Data).budget
                 /\ budget_interval' = Cleared(Data).budget_interval
                 /\ category_budgets' = Cleared(Data).category_budgets
                 /\ data_file' = save_data(Data')
                 /\ allTx' = <<>>
                 /\ savedTx' = <<>>
                 /\ MainLoop
            [] r.end = "no" ->
                 /\ UNCHANGED <<Fields, data_file, allTx, savedTx>>
                 /\ MainLoop
            [] r.end = "eof" ->
                 /\ UNCHANGED <<Fields, data_file, allTx, savedTx, status>>
                 /\ pc' = "crashed"

\* choice 'x' or 'X': save_data, break
exit_program(choices) ==
  /\ pc = "main"
  /\ \E t \in choices :
       /\ Lower(t) = "x"
       /\ last' = Did("exit", "done", 0)
  /\ data_file' = save_data(Data)
  /\ savedTx' = allTx
  /\ pc' = "exited"
  /\ summary' = <<>>
  /\ UNCHANGED <<Fields, now, status, allTx>>

\* EOFError at the main prompt: break
main_eof ==
  /\ pc = "main"
  /\ last' = Did("main", "eof", 0)
  /\ pc' = "exited"
  /\ summary' = <<>>
  /\ UNCHANGED <<Fields, data_file, now, status, allTx, savedTx>>

\* choice '4' or '5': budget_menu or category_menu clears the screen and
\* shows its own prompt
open_menu(choices) ==
  /\ pc = "main"
  /\ \E t \in choices :
       /\ t \in {"4", "5"}
       /\ pc' = (IF t = "4" THEN "budget_menu" ELSE "category_menu")
       /\ last' = Did("open_menu", "done", 0)
  /\ status' = <<>>
  /\ summary' = <<>>
  /\ UNCHANGED <<Fields, data_file, now, allTx, savedTx>>

\* The choices a menu dispatches on.
MenuChoices(menu) ==
  CASE menu = "main" -> {"1", "2", "3", "4", "5", "6"}
    [] menu = "budget_menu" -> {"1", "2", "3"}
    [] menu = "category_menu" -> {"1", "2"}

\* "Invalid choice. Please try again.": the menu is shown again
invalid_choice(choices) ==
  /\ pc \in {"main", "budget_menu", "category_menu"}
  /\ \E t \in choices :
       /\ t \notin MenuChoices(pc)
       /\ Lower(t) # "x"
       /\ last' = Did("invalid_choice", "done", 0)
  /\ summary' = <<>>
  /\ UNCHANGED <<Fields, data_file, now, allTx, savedTx>>
  /\ IF pc = "main" THEN MainLoop ELSE UNCHANGED <<pc, status>>

(***************************************************************************)
(* Budget menu.                                                            *)
(***************************************************************************)
\* choice '1'
set_budget(amounts) ==
  /\ pc = "budget_menu"
  /\ \E a \in ReadAmount(amounts) :
       IF a.end # "ok"
       THEN /\ last' = Did("set_budget", a.end, a.rej)
            /\ UNCHANGED budget
       ELSE /\ budget' = a.val
            /\ last' = Op("set_budget", "done", a.rej, a.val, "", NoDate)
  /\ UNCHANGED <<expenses, categories, balance, transaction_history,
                 budget_interval, category_budgets, data_file, pc, now,
                 status, summary, allTx, savedTx>>

\* choice '2'
set_category_budget(names, amounts) ==
  /\ pc = "budget_menu"
  /\ \E c \in ReadCategory(names, categories) :
       IF c.end # "ok"
       THEN /\ last' = Did("set_category_budget", c.end, c.rej)
            /\ UNCHANGED category_budgets
       ELSE \E a \in ReadAmount(amounts) :
         IF a.end # "ok"
         THEN /\ last' = Did("set_category_budget", a.end, c.rej + a.rej)
              /\ UNCHANGED category_budgets
         ELSE /\ category_budgets' = DictSet(category_budgets, c.val, a.val)
              /\ last' = Op("set_category_budget", "done", c.rej + a.rej,
                            a.val, c.val, NoDate)
  /\ UNCHANGED <<expenses, categories, balance, transaction_history, budget,
                 budget_interval, data_file, pc, now, status, summary, allTx, savedTx>>

RECURSIVE ReadIntervalFrom(_, _)
ReadIntervalFrom(texts, rej) ==
  UNION { IF t = EOF
            THEN {PromptEnd("eof", "", rej)}
          ELSE IF Title(t) \in Range(budget_intervals)
            THEN {PromptEnd("ok", Title(t), rej)}
          ELSE IF rej < MaxRetries
            THEN ReadIntervalFrom(texts, rej + 1) ELSE {}
        : t \in texts \cup {EOF} }

\* choice '3'
set_budget_interval(texts) ==
  /\ pc = "budget_menu"
  /\ \E r \in ReadIntervalFrom(texts, 0) :
       IF r.end # "ok"
       THEN /\ last' = Did("set_budget_interval", r.end, r.rej)
            /\ UNCHANGED budget_interval
       ELSE /\ budget_interval' = r.val
            /\ last' = Op("set_budget_interval", "done", r.rej, 0, r.val, NoDate)
  /\ UNCHANGED <<expenses, categories, balance, transaction_history, budget,
                 category_budgets, data_file, pc, now, status, summary, allTx, savedTx>>

\* choice 'x' or 'X', or EOFError, at a submenu's prompt: return to run's loop
leave_menu(choices) ==
  /\ pc \in {"budget_menu", "category_menu"}
  /\ \E t \in choices \cup {EOF} :
       /\ t = EOF \/ Lower(t) = "x"
       /\ last' = Did(pc, IF t = EOF THEN "eof" ELSE "done", 0)
  /\ UNCHANGED <<Fields, data_file, now, summary, allTx, savedTx>>
  /\ MainLoop

(***************************************************************************)
(* Category menu.                                                          *)
(***************************************************************************)
RECURSIVE ReadNewCategoryFrom(_, _, _)
ReadNewCategoryFrom(texts, cats, rej) ==
  UNION { IF t = EOF
            THEN {PromptEnd("eof", "", rej)}
          ELSE IF t = ""
            THEN {PromptEnd("empty", "", rej)}
          ELSE IF t \in Range(cats)
            THEN (IF rej < MaxRetries
                  THEN ReadNewCategoryFrom(texts, cats, rej + 1) ELSE {})
          ELSE {PromptEnd("ok", t, rej)}
        : t \in texts \cup {EOF} }

\* choice '1'
add_category(names) ==
  /\ pc = "category_menu"
  /\ \E r \in ReadNewCategoryFrom(names, categories, 0) :
       IF r.end # "ok"
       THEN /\ last' = Did("add_category", r.end, r.rej)
            /\ UNCHANGED <<categories, category_budgets>>
       ELSE /\ categories' = Append(categories, r.val)
            /\ category_budgets' = DictSet(category_budgets, r.val, 0)
            /\ last' = Op("add_category", "done", r.rej, 0, r.val, NoDate)
  /\ UNCHANGED <<expenses, balance, transaction_history, budget,
                 budget_interval, data_file, pc, now, status, summary, allTx, savedTx>>

RECURSIVE ReadOldCategoryFrom(_, _, _)
ReadOldCategoryFrom(texts, cats, rej) ==
  UNION { IF t = EOF
            THEN {PromptEnd("eof", "", rej)}
          ELSE IF t = ""
            THEN {PromptEnd("empty", "", rej)}
          ELSE IF t \notin Range(cats)
            THEN (IF rej < MaxRetries
                  THEN ReadOldCategoryFrom(texts, cats, rej + 1) ELSE {})
          ELSE {PromptEnd("ok", t, rej)}
        : t \in texts \cup {EOF} }

\* choice '2'
delete_category(names) ==
  /\ pc = "category_menu"
  /\ \E r \in ReadOldCategoryFrom(names, categories, 0) :
       IF r.end # "ok"
       THEN /\ last' = Did("delete_category", r.end, r.rej)
            /\ UNCHANGED <<categories, category_budgets>>
       ELSE /\ categories' = ListRemove(categories, r.val)
            /\ category_budgets' =
                 (IF r.val \in DOMAIN category_budgets
                  THEN DictDel(category_budgets, r.val)
                  ELSE category_budgets)
            /\ last' = Op("delete_category", "done", r.rej, 0, r.val, NoDate)
  /\ UNCHANGED <<expenses, balance, transaction_history, budget,
                 budget_interval, data_file, pc, now, status, summary, allTx, savedTx>>

(***************************************************************************)
(* The process and the clock.                                              *)
(***************************************************************************)
\* A new process after the last one ended: __init__, then run.
restart ==
  /\ pc \in {"exited", "crashed"}
  /\ LET d == Constructed(data_file)
     IN  /\ expenses' = d.expenses
         /\ categories' = d.categories
         /\ balance' = d.balance
         /\ transaction_history' = d.transaction_history
         /\ budget' = d.budget
         /\ budget_interval' = d.budget_interval
         /\ category_budgets' = d.category_budgets
  /\ allTx' = savedTx
  /\ last' = Did("start", IF data_file = <<>> THEN "done" ELSE "loaded", 0)
  /\ summary' = <<>>
  /\ UNCHANGED <<data_file, now, savedTx>>
  /\ MainLoop

\* Time passes while the process waits at a prompt.
tick(clock) ==
  /\ pc \in {"main", "budget_menu", "category_menu"}
  /\ \E t \in clock : DtLess(now, t) /\ now' = t
  /\ last' = Did("tick", "done", 0)
  /\ UNCHANGED <<Fields, data_file, pc, status, summary, allTx, savedTx>>

(***************************************************************************)
(* Specifications.  Spec: the ledger and the life of the process.          *)
(***************************************************************************)
Amounts == {"1", "-1", "abc"}

ExpenseAmounts == {"3", "0"}

Names == {"Food", "2", "9", ""}

Dates == {"", "2024-02-01", "2024-02-30"}

Answers == {"yes", "no", "YES", "y"}

Choices == {"x", "X", "7", ""}

Next ==
  \/ add_expense(ExpenseAmounts, Names, Dates, MaxExpenses, MaxTx)
  \/ add_money(Amounts, MaxTx)
  \/ view_summary
  \/ clear_all_data(Answers)
  \/ invalid_choice(Choices)
  \/ exit_program(Choices)
  \/ main_eof
  \/ restart

Spec == Init /\ [][Next]_vars

(***************************************************************************)
(* SpecStatus: expenses of several dates, the budget and its interval;     *)
(* what display_status and update_summary report.                          *)
(***************************************************************************)
StatusAmounts == {"1", "2"}

StatusNames == {"Food", "2"}

StatusDates == {"", "2024-02-01", "2023-12-31"}

Intervals == {"day", "week", "bi-weekly", "MONTH", "Year", "fortnight"}

NextStatus ==
  \/ add_expense(StatusAmounts, StatusNames, StatusDates,
                 MaxStatusExpenses, MaxStatusExpenses)
  \/ view_summary
  \/ open_menu({"4"})
  \/ set_budget({"5"})
  \/ set_budget_interval(Intervals)
  \/ set_category_budget({"Food"}, {"4"})
  \/ leave_menu({"x"})

SpecStatus == Init /\ [][NextStatus]_vars

(***************************************************************************)
(* SpecCat: categories and their budgets, across clear, save and reload.   *)
(***************************************************************************)
NextCat ==
  \/ add_expense({"1"}, {"Food"}, {""}, MaxCatExpenses, MaxCatTx)
  \/ view_summary
  \/ open_menu({"4", "5"})
  \/ set_budget({"5"})
  \/ set_category_budget({"Food", "Pets", "7"}, {"3"})
  \/ add_category({"Pets", "Food", ""})
  \/ delete_category({"Food", "Pets", "Nope"})
  \/ leave_menu({"x"})
  \/ clear_all_data({"yes", "no"})
  \/ exit_program({"x"})
  \/ restart

SpecCat == Init /\ [][NextCat]_vars

(***************************************************************************)
(* SpecMenu: every handler of every menu, end-of-input at each prompt, and *)
(* the clock.                                                              *)
(***************************************************************************)
MenuClock == {DateTime(2024, 2, 15, 0)}

NextMenu ==
  \/ add_expense({"1"}, {"Food"}, {""}, MaxCatExpenses, MaxCatTx)
  \/ add_money({"1"}, MaxCatTx)
  \/ view_summary
  \/ clear_all_data({"yes", "no"})
  \/ open_menu({"4", "5"})
  \/ invalid_choice({"7"})
  \/ set_budget({"5"})
  \/ set_category_budget({"Food"}, {"3"})
  \/ set_budget_interval({"week"})
  \/ add_category({"Pets"})
  \/ delete_category({"Pets"})
  \/ leave_menu({"x"})
  \/ exit_program({"x"})
  \/ main_eof
  \/ tick(MenuClock)

SpecMenu == Init /\ [][NextMenu]_vars

(***************************************************************************)
(* Properties of Spec.                                                     *)
(***************************************************************************)
\* The last n entries of s, all of s when it is shorter.
LastN(s, n) == IF Len(s) <= n THEN s ELSE SubSeq(s, Len(s) - n + 1, Len(s))

\* C1: a step in which add_expense completes has read an amount > 0 and a
\* category of the list, takes exactly that amount off the balance, appends
\* the one record (date, category, amount) to expenses, and leaves the
\* history as the old history with the one entry ("Expense", date, category,
\* amount) appended, less at most the entry the trim evicts from the front.
C1_AddExpenseEffect ==
  [][ (last'.op = "add_expense" /\ last'.end = "done") =>
        LET tx == <<"Expense", last'.date, last'.category, last'.amount>>
            appended == Append(transaction_history, tx)
        IN  /\ last'.amount > 0
            /\ last'.category \in Range(categories)
            /\ balance' = balance - last'.amount
            /\ expenses' = Append(expenses,
                                  <<last'.date, last'.category, last'.amount>>)
            /\ \/ transaction_history' = appended
               \/ transaction_history' = Tail(appended)
            /\ UNCHANGED <<categories, budget, budget_interval,
                           category_budgets, data_file>> ]_vars

\* C1 witness: add_expense completed, after a re-prompt, as the transaction
\* that makes the trim evict.
C1_Witness ==
  /\ last.op = "add_expense"
  /\ last.end = "done"
  /\ last.rej > 0
  /\ Len(allTx) > history_length
  /\ balance # 0

\* C2: the history never holds more than history_length entries, and it is
\* the most recent entries of the log of all transactions since the last
\* clear, in the order they happened.
C2_HistoryIsRecent ==
  /\ Len(transaction_history) <= history_length
  /\ transaction_history = LastN(allTx, history_length)

\* C2 witness: a sixth entry has arrived in a process that loaded a saved
\* history, and the entry evicted differs from the one now the oldest.
C2_Witness ==
  /\ Len(allTx) > history_length
  /\ Len(savedTx) > 0
  /\ pc = "main"
  /\ allTx[1] # transaction_history[1]
  /\ allTx[Len(allTx)] # allTx[1]

\* C3, as claimed: a process started from a saved file holds, when its
\* constructor returns, exactly the fields that were saved.
C3_RoundTrip ==
  (last.op = "start" /\ last.end = "loaded") => Data = data_file[1]

C4_WitnessNo ==
  /\ last.op = "clear_all_data"
  /\ last.end = "no"
  /\ balance # 0

\* C8, as claimed: whenever the process has ended, it ended on the command
\* 'x' and the file holds the final fields.
C8_ExitSaves ==
  pc \in {"exited", "crashed"} =>
    (last.op = "exit" /\ data_file = <<Data>>)

(***************************************************************************)
(* Properties of SpecStatus.                                               *)
(***************************************************************************)
\* The first instant of the current day, week (Monday), bi-weekly period
\* (counted from Monday 1970-01-05), month or year at time t.
WindowStart(interval, t) ==
  LET c == Ord2Ymd(t.ord)
  IN  CASE interval = "Day" -> [ord |-> t.ord, tod |-> 0]
        [] interval = "Week" -> [ord |-> t.ord - Weekday(t), tod |-> 0]
        [] interval = "Bi-Weekly" ->
             [ord |-> t.ord - ((t.ord - Ymd2Ord(1970, 1, 5)) % 14), tod |-> 0]
        [] interval = "Month" -> [ord |-> Ymd2Ord(c.y, c.m, 1), tod |-> 0]
        [] interval = "Year" -> [ord |-> Ymd2Ord(c.y, 1, 1), tod |-> 0]

\* The sum of the amounts of the expenses of exps that satisfy Keep.
SumOf(exps, Keep(_)) == SumAmounts(SelectSeq(exps, Keep))

InWindow(e, interval, t) ==
  DtLeq(WindowStart(interval, t), e[1]) /\ DtLeq(e[1], t)

\* C5, as claimed: with a budget set, the status shown at the main prompt
\* reports as spent the sum of the expenses dated from the first instant of
\* the current interval to the time of the display, and as remaining the
\* budget less that sum.
C5_SpendToDate ==
  (pc = "main" /\ budget > 0) =>
    LET spent == SumOf(expenses,
                       LAMBDA e : InWindow(e, budget_interval, status[1].at))
    IN  status[1].overall = <<[spent |-> spent, remaining |-> budget - spent]>>

\* C6, as claimed: each category line of the status reports as spent the sum
\* of that category's expenses dated within the current interval window.
C6_CategoryWindowed ==
  pc = "main" =>
    \A c \in DOMAIN category_budgets :
      LET spent ==
            SumOf(expenses,
                  LAMBDA e : e[2] = c
                             /\ InWindow(e, budget_interval, status[1].at))
      IN  /\ status[1].category[c].spent = spent
          /\ status[1].category[c].remaining = category_budgets[c] - spent

\* C6, amended: the status shown at the main prompt has one line per entry
\* of category_budgets, and it reports as spent the sum of all recorded
\* expenses of that category, whatever their date, and as remaining the
\* category's budget less that sum.
C6_CategoryAllTime ==
  pc = "main" =>
    /\ DOMAIN status[1].category = DOMAIN category_budgets
    /\ \A c \in DOMAIN category_budgets :
         LET spent == SumOf(expenses, LAMBDA e : e[2] = c)
         IN  status[1].category[c] =
               [ budget |-> category_budgets[c], spent |-> spent,
                 remaining |-> category_budgets[c] - spent ]

\* C6 witness: a category with a budget has two expenses, one dated before
\* the current interval began, and the status counts both.
C6_Witness ==
  /\ pc = "main"
  /\ budget > 0
  /\ category_budgets["Food"] > 0
  /\ Len(expenses) = 2
  /\ \A i \in 1..2 : expenses[i][2] = "Food"
  /\ \E i \in 1..2 : ~InWindow(expenses[i], budget_interval, status[1].at)
  /\ \E i \in 1..2 : InWindow(expenses[i], budget_interval, status[1].at)
  /\ status[1].category["Food"].spent = expenses[1][3] + expenses[2][3]

\* Every sequence that holds the entries of s in some order.
Reorderings(s) ==
  LET n == Len(s)
      bijections == { f \in [1..n -> 1..n] :
                        \A i, j \in 1..n : f[i] = f[j] => i = j }
  IN  { [i \in 1..n |-> s[f[i]]] : f \in bijections }

\* The sum of the values of a dictionary.
RECURSIVE SumValues(_)
SumValues(d) ==
  IF DOMAIN d = {} THEN 0
  ELSE LET k == CHOOSE c \in DOMAIN d : TRUE
       IN  d[k] + SumValues([c \in (DOMAIN d) \ {k} |-> d[c]])

Orphaned(e) == e[2] \notin Range(categories)

\* C9: a delete_category that completes has read a name of the list; it
\* takes that name, and nothing else, out of categories and out of
\* category_budgets and changes no other field, so expenses of the deleted
\* category stay; one that does not complete changes no field.  At the main
\* prompt afterwards the status is shown and its spent figure sums every
\* expense dated in the window display_status sums over, whatever its
\* category; a summary that is shown totals every expense and has a
\* category total for every category an expense names.
C9_DeleteCategory ==
  /\ [][ (last'.op = "delete_category") =>
           IF last'.end = "done"
           THEN LET name == last'.category
                IN  /\ name \in Range(categories)
                    /\ name \notin Range(categories')
                    /\ categories' = SelectSeq(categories, LAMBDA c : c # name)
                    /\ DOMAIN category_budgets' = (DOMAIN category_budgets) \ {name}
                    /\ \A c \in DOMAIN category_budgets' :
                         category_budgets'[c] = category_budgets[c]
                    /\ UNCHANGED <<expenses, balance, transaction_history,
                                   budget, budget_interval, data_file>>
           ELSE UNCHANGED <<Fields, data_file>> ]_vars
  /\ [](pc = "main" =>
          /\ Len(status) = 1
          /\ budget > 0 =>
               status[1].overall[1].spent =
                 SumOf(expenses,
                       LAMBDA e :
                         /\ DtLeq(interval_start(budget_interval, status[1].at), e[1])
                         /\ DtLeq(e[1], status[1].at))
          /\ summary # <<>> =>
               /\ summary[1].total_spending = SumOf(expenses, LAMBDA e : TRUE)
               /\ \A e \in Range(expenses) :
                    /\ e[2] \in DOMAIN summary[1].category_totals
                    /\ summary[1].category_totals[e[2]] =
                         SumOf(expenses, LAMBDA x : x[2] = e[2]))

\* C9 witness: an expense names a category that has been deleted, and the
\* status and the summary shown afterwards both count it.
C9_Witness ==
  /\ pc = "main"
  /\ \E e \in Range(expenses) : Orphaned(e)
  /\ "Food" \notin DOMAIN category_budgets
  /\ budget > 0
  /\ status[1].overall[1].spent > 0
  /\ summary # <<>>
  /\ summary[1].total_spending > 0

\* C10: the keys of category_budgets are names of categories, and no name
\* is in categories twice.
C10_BudgetKeysAreCategories ==
  /\ (DOMAIN category_budgets) \subseteq Range(categories)
  /\ Cardinality(Range(categories)) = Len(categories)

\* C10 witness: a process that loaded a saved file in which a category had
\* been deleted and re-added and another added with a budget.
C10_Witness ==
  /\ last.op = "start"
  /\ last.end = "loaded"
  /\ categories[Len(categories)] = "Food"
  /\ "Pets" \in Range(categories)
  /\ category_budgets["Pets"] > 0
  /\ category_budgets["Food"] = 0

\* C12, as claimed: while the process runs every category of categories has
\* an entry in category_budgets, and the status shown at the main prompt has
\* a budget line for every category.
C12_EveryCategoryHasBudget ==
  pc \in {"main", "budget_menu", "category_menu"} =>
    /\ Range(categories) \subseteq DOMAIN category_budgets
    /\ pc = "main" =>
         Range(categories) \subseteq DOMAIN status[1].category

(***************************************************************************)
(* Properties of SpecMenu.                                                 *)
(***************************************************************************)
\* The menu a handler was called from.
EnclosingMenu(op) ==
  CASE op \in {"set_budget", "set_category_budget", "set_budget_interval"} ->
         "budget_menu"
    [] op \in {"add_category", "delete_category"} -> "category_menu"
    [] OTHER -> "main"

\* C7, as claimed: after end-of-input at a prompt of any sub-flow the
\* process is at the prompt of the enclosing menu.
C7_EofReturnsToMenu ==
  (last.end = "eof" /\ last.op # "main") => pc = EnclosingMenu(last.op)

\* C7 holds of every sub-flow but clear_all_data.
C7_EofOutsideClear ==
  (last.end = "eof" /\ last.op \notin {"main", "clear_all_data"}) =>
    pc = EnclosingMenu(last.op)

====
